---------------------------- MODULE Spec2Model ----------------------------
(***************************************************************************)
(* The Amazon sales pipeline: clean_amazon_sales_data (pandas), the loader *)
(* insert_raw_data_to_duckdb and the two aggregators over the DuckDB       *)
(* tables raw_amazon_sales, monthly_revenue and daily_orders, the job      *)
(* amazon_sales_pipeline that runs them in order, and duckdb_resource with *)
(* the DuckDBConnectionWrapper it hands out.                               *)
(*                                                                         *)
(* Encoding.  A nullable value is a set with at most one element: Null is  *)
(* a pandas NaN / NaT or an SQL NULL, Some(v) is the value v.  A float     *)
(* Amount of a DataFrame is counted in thousandths, a DECIMAL(.,2) value   *)
(* of a table in hundredths.  A Date of the source is <<month, day, two-   *)
(* digit year>>, a parsed date is the integer yyyymmdd, a year-month is    *)
(* the integer yyyymm.  A DataFrame is [columns, rows]: the set of column  *)
(* names and the sequence of rows, each row a function over the columns.   *)
(* The raw table is the sequence of its rows in insertion order; a summary *)
(* table is the bag of its rows.  The store-assigned timestamps            *)
(* (ingestion_timestamp, created_at) are left out of the rows.             *)
(***************************************************************************)
EXTENDS Integers, Sequences, FiniteSets, Bags, TLC

VARIABLES
    csv_file,          \* the source CSV: Null when missing, else Some(DataFrame)
    cleaned_file,      \* the *_cleaned.csv file: Null when absent, else Some(DataFrame)
    stage,             \* where the data-processing chain stands
    raw_amazon_sales,  \* the raw table, rows in insertion order
    records_inserted,  \* what insert_raw_data_to_duckdb returned last
    monthly_revenue,   \* the monthly_revenue table (bag of rows)
    daily_orders,      \* the daily_orders table (bag of rows)
    mpc,               \* create_monthly_revenue_table: position in the op
    m_raw_count,       \* its local raw_count
    revenue_records,   \* its local revenue_records, the value it returns
    mprev,             \* what it found when it was invoked (history)
    dpc,               \* create_daily_orders_table: position in the op
    d_raw_count,       \* its local raw_count
    order_records,     \* its local order_records, the value it returns
    dprev,             \* what it found when it was invoked (history)
    job,               \* amazon_sales_pipeline: the op the run stands at
    job_runs,          \* runs of the job started so far (history)
    _singleton_connection,  \* __singleton_connection: Null or Some(handle)
    wrappers,          \* the DuckDBConnectionWrapper objects, by handle
    returned,          \* the handles duckdb_resource returned (history)
    call,              \* the last call of duckdb_resource or of a wrapper
                       \* method, and its outcome
    schema             \* the tables that exist in the store file

vars == <<csv_file, cleaned_file, stage, raw_amazon_sales, records_inserted,
          monthly_revenue, daily_orders, mpc, m_raw_count, revenue_records,
          mprev, dpc, d_raw_count, order_records, dprev, job, job_runs,
          _singleton_connection, wrappers, returned, call, schema>>

procVars == <<csv_file, cleaned_file, stage, raw_amazon_sales, records_inserted>>
monthlyVars == <<monthly_revenue, mpc, m_raw_count, revenue_records, mprev>>
dailyVars == <<daily_orders, dpc, d_raw_count, order_records, dprev>>
opVars == <<procVars, monthlyVars, dailyVars>>
jobVars == <<job, job_runs>>
connVars == <<_singleton_connection, wrappers, returned, call, schema>>

----------------------------------------------------------------------------
(* Bounds *)

\* rows in one source file
MaxBatch == 2
\* rows the raw table may hold in the pipeline specification
MaxRaw == 2
\* rows of the raw table the aggregation specification starts from
MaxAggRaw == 3
\* runs of the job
MaxRuns == 3
\* calls of duckdb_resource in the process
MaxAcquire == 3
\* calls of execute, register and close on one wrapper
MaxCalls == 3

----------------------------------------------------------------------------
(* Nullable values *)

Null == {}
Some(v) == {v}
Val(x) == CHOOSE v \in x : TRUE
Coalesce(x, d) == IF x = Null THEN d ELSE Val(x)

\* Sequences over S of length 0..n
SeqUpTo(S, n) == UNION {[1..k -> S] : k \in 0..n}

----------------------------------------------------------------------------
(* clean_amazon_sales_data *)

amount_col == "Amount"
status_col == "Status"
currency_col == "currency"
date_col == "Date"

\* Leap years between 1969 and 2068, the years %y can produce
DaysInMonth(m, y) ==
    IF m = 2 THEN (IF y % 4 = 0 THEN 29 ELSE 28)
    ELSE IF m \in {4, 6, 9, 11} THEN 30 ELSE 31

\* %y of strptime: 00..68 are 2000..2068, 69..99 are 1969..1999
Year2(yy) == IF yy <= 68 THEN 2000 + yy ELSE 1900 + yy

\* A Date cell is Null or Some(<<month, day, two-digit year>>): whether it
\* matches format='%m-%d-%y'.  A NaN cell becomes NaT without an error.
DateMatches(cell) ==
    \/ cell = Null
    \/ LET d == Val(cell) IN
         /\ d[1] \in 1..12
         /\ d[3] \in 0..99
         /\ d[2] \in 1..DaysInMonth(d[1], Year2(d[3]))

\* pd.to_datetime of one cell that matches: the date as yyyymmdd
ToDatetime(cell) ==
    IF cell = Null THEN Null
    ELSE LET d == Val(cell) IN Some(Year2(d[3]) * 10000 + d[1] * 100 + d[2])

\* df.loc[mask, col] = v: the rows of the mask get v in column col; a column
\* that does not exist yet is created, NaN in the other rows
LocAssign(df, mask, col, v) ==
    [columns |-> df.columns \cup {col},
     rows |-> [i \in DOMAIN df.rows |->
                 [c \in df.columns \cup {col} |->
                     IF c = col
                     THEN (IF i \in mask THEN v
                           ELSE IF col \in df.columns THEN df.rows[i][col]
                           ELSE Null)
                     ELSE df.rows[i][c]]]]

\* Rule 1: cancelled orders with a missing Amount get Amount = 0.0
Rule1Misspelt(df) ==
    LET mask == {i \in DOMAIN df.rows :
                    /\ df.rows[i][status_col] = Some("Canceled")
                    /\ df.rows[i][amount_col] = Null}
    IN LocAssign(df, mask, amount_col, Some(0))
Rule1ZeroesAllMissing(df) ==
    LET mask == {i \in DOMAIN df.rows : df.rows[i][amount_col] = Null}
    IN LocAssign(df, mask, amount_col, Some(0))
Rule1(df) ==
    LET cancelled_missing_amount ==
            {i \in DOMAIN df.rows :
                /\ df.rows[i][status_col] = Some("Cancelled")
                /\ df.rows[i][amount_col] = Null}
    IN LocAssign(df, cancelled_missing_amount, amount_col, Some(0))

\* Rule 2: non-cancelled orders with a missing Amount are flagged; the mask
\* is computed on the frame rule 1 has already changed.  A NaN Status
\* compares unequal to 'Cancelled'.
Rule2SkipsNaNStatus(df) ==
    LET mask == {i \in DOMAIN df.rows :
                    /\ df.rows[i][status_col] \notin {Null, Some("Cancelled")}
                    /\ df.rows[i][amount_col] = Null}
    IN IF Cardinality(mask) > 0
       THEN LocAssign(df, mask, "data_quality_flag",
                      Some("missing_amount_non_cancelled"))
       ELSE df
Rule2(df) ==
    LET non_cancelled_missing ==
            {i \in DOMAIN df.rows :
                /\ df.rows[i][status_col] # Some("Cancelled")
                /\ df.rows[i][amount_col] = Null}
        flagged_count == Cardinality(non_cancelled_missing)
    IN IF flagged_count > 0
       THEN LocAssign(df, non_cancelled_missing, "data_quality_flag",
                      Some("missing_amount_non_cancelled"))
       ELSE df

\* Rule 3: a missing currency becomes 'INR'
Rule3Overwrites(df) ==
    LocAssign(df, DOMAIN df.rows, currency_col, Some("INR"))
Rule3(df) ==
    LET currency_missing ==
            {i \in DOMAIN df.rows : df.rows[i][currency_col] = Null}
    IN LocAssign(df, currency_missing, currency_col, Some("INR"))

\* Rule 4: the Date column is parsed; one cell that does not match raises
Rule4FailsFirstRowOnly(df) ==
    1 \in DOMAIN df.rows /\ ~DateMatches(df.rows[1][date_col])
Rule4Fails(df) == \E i \in DOMAIN df.rows : ~DateMatches(df.rows[i][date_col])
Rule4DropsNaT(df) ==
    LET kept == SelectSeq(df.rows, LAMBDA r : r[date_col] # Null)
    IN [columns |-> df.columns,
        rows |-> [i \in DOMAIN kept |->
                    [kept[i] EXCEPT ![date_col] = ToDatetime(@)]]]
Rule4(df) ==
    [columns |-> df.columns,
     rows |-> [i \in DOMAIN df.rows |->
                 [df.rows[i] EXCEPT ![date_col] = ToDatetime(@)]]]

\* The frame the op writes to the cleaned file
CleanFrame(df_raw) == Rule4(Rule3(Rule2(Rule1(df_raw))))

\* The op: reads the source, applies the rules, writes the cleaned file and
\* returns its path; a date that does not parse raises before the write.
clean_amazon_sales_data ==
    /\ stage = "source"
    /\ csv_file # Null
    /\ LET df_raw == Val(csv_file) IN
         IF Rule4Fails(Rule3(Rule2(Rule1(df_raw))))
         THEN /\ stage' = "clean_failed"
              /\ UNCHANGED cleaned_file
         ELSE /\ stage' = "cleaned"
              /\ cleaned_file' = Some(CleanFrame(df_raw))
    /\ UNCHANGED <<csv_file, raw_amazon_sales, records_inserted>>
    /\ UNCHANGED <<monthlyVars, dailyVars>>


----------------------------------------------------------------------------
(* load_csv_data *)

\* The op returns the path of the source file when the file exists and its
\* first rows can be read, and raises FileNotFoundError otherwise.  files
\* are the contents the environment may have left at the path (Null: no
\* file).  A run is started only between ops; on a raw table that already
\* holds rows it is started only while its rows fit under MaxRaw, which
\* bounds the raw table.
load_csv_data(files) ==
    /\ stage \in {"idle", "inserted", "load_failed", "clean_failed",
                 "insert_failed"}
    /\ mpc \in {"idle", "done", "failed"}
    /\ dpc \in {"idle", "done", "failed"}
    /\ \E f \in files :
          /\ f # Null =>
                \/ raw_amazon_sales = <<>>
                \/ Len(raw_amazon_sales) + Len(Val(f).rows) <= MaxRaw
          /\ csv_file' = f
          /\ stage' = IF f = Null THEN "load_failed" ELSE "source"
    /\ UNCHANGED <<cleaned_file, raw_amazon_sales, records_inserted>>
    /\ UNCHANGED <<monthlyVars, dailyVars>>

----------------------------------------------------------------------------
(* insert_raw_data_to_duckdb *)

column_mapping ==
    ("Order ID" :> "order_id") @@ ("Date" :> "date_col") @@
    ("Status" :> "status") @@ ("Fulfilment" :> "fulfilled_by") @@
    ("Sales Channel " :> "sales_channel") @@
    ("ship-service-level" :> "ship_service_level") @@ ("Style" :> "style") @@
    ("SKU" :> "sku") @@ ("Category" :> "category") @@ ("Size" :> "size") @@
    ("ASIN" :> "asin") @@ ("Courier Status" :> "courier_status") @@
    ("Qty" :> "qty") @@ ("currency" :> "currency") @@ ("Amount" :> "amount") @@
    ("ship-city" :> "ship_city") @@ ("ship-state" :> "ship_state") @@
    ("ship-postal-code" :> "ship_postal_code") @@
    ("ship-country" :> "ship_country") @@ ("promotion-ids" :> "promotion_ids")

db_columns ==
    <<"index_id", "order_id", "date_col", "category", "size", "sku", "asin",
      "style", "status", "courier_status", "qty", "amount", "currency",
      "ship_service_level", "ship_city", "ship_state", "ship_postal_code",
      "ship_country", "sales_channel", "fulfilled_by", "promotion_ids",
      "data_quality_flag">>

\* df.rename(columns=existing_renames)
NewNameUnmapped(c) == c
NewName(c) == IF c \in DOMAIN column_mapping THEN column_mapping[c] ELSE c
Rename(df) ==
    LET cols == {NewName(c) : c \in df.columns}
        old(n) == CHOOSE c \in df.columns : NewName(c) = n
    IN [columns |-> cols,
        rows |-> [i \in DOMAIN df.rows |-> [n \in cols |-> df.rows[i][old(n)]]]]

\* df_db['index_id'] = range(len(df_db)) when the frame has no index_id
AddIndex(df) ==
    IF "index_id" \in df.columns THEN df
    ELSE [columns |-> df.columns \cup {"index_id"},
          rows |-> [i \in DOMAIN df.rows |->
                      [c \in df.columns \cup {"index_id"} |->
                          IF c = "index_id" THEN Some(i - 1)
                          ELSE df.rows[i][c]]]]

\* available_columns: the columns of db_columns the frame has, in that order
AvailableColumns(df) == SelectSeq(db_columns, LAMBDA c : c \in df.columns)

Range(s) == {s[i] : i \in DOMAIN s}

\* A float of the frame (counted in thousandths) stored in a DECIMAL(10,2)
\* column (counted in hundredths): rounded to the nearest hundredth
ToDecimal2(x) ==
    IF x >= 0 THEN (x + 5) \div 10 ELSE -((5 - x) \div 10)

\* The value a cell of the staged frame takes in the column of the raw table
CastTo(col, cell) ==
    IF col = "amount" /\ cell # Null THEN Some(ToDecimal2(Val(cell)))
    ELSE cell

\* INSERT INTO raw_amazon_sales (column_list) SELECT * FROM df_temp: one row
\* per row of the frame; a column that is not in the list is NULL
InsertedRows(df) ==
    [i \in DOMAIN df.rows |->
        [c \in Range(db_columns) |->
            IF c \in Range(AvailableColumns(df))
            THEN CastTo(c, df.rows[i][c]) ELSE Null]]

\* SELECT COUNT(*) FROM raw_amazon_sales
CountBatchOnly(table, batch) == Len(batch)
CountAfterInsert(table, batch) == Len(table \o batch)

\* The op: reads the cleaned file, maps its columns, appends the batch with
\* one INSERT and returns the table's row count.
insert_raw_data_to_duckdb ==
    /\ stage = "cleaned"
    /\ cleaned_file # Null
    /\ LET df_clean == Val(cleaned_file)
           df_db == AddIndex(Rename(df_clean))
           batch == InsertedRows(df_db)
       IN /\ raw_amazon_sales' = raw_amazon_sales \o batch
          /\ records_inserted' = CountAfterInsert(raw_amazon_sales, batch)
    /\ stage' = "inserted"
    /\ UNCHANGED <<csv_file, cleaned_file>>
    /\ UNCHANGED <<monthlyVars, dailyVars>>

\* A statement of the store that fails changes no row of its table: the
\* INSERT ... SELECT * FROM df_temp is one statement, not one per row
RowByRowFailed(table, batch) == table \o SubSeq(batch, 1, Len(batch) - 1)
StatementFailed(table, batch) == table

\* The op when the store rejects the INSERT: the exception leaves the op,
\* nothing is counted or returned
insert_raw_data_to_duckdb_insert_fails ==
    /\ stage = "cleaned"
    /\ cleaned_file # Null
    /\ LET df_clean == Val(cleaned_file)
           df_db == AddIndex(Rename(df_clean))
           batch == InsertedRows(df_db)
       IN raw_amazon_sales' = StatementFailed(raw_amazon_sales, batch)
    /\ stage' = "insert_failed"
    /\ UNCHANGED <<csv_file, cleaned_file, records_inserted>>
    /\ UNCHANGED <<monthlyVars, dailyVars>>

----------------------------------------------------------------------------
(* The analytics queries *)

\* strftime('%Y-%m', date_col): the year and month of a date
StrftimeYm(d) == d \div 100

RECURSIVE SumAmount(_, _)
\* SUM(COALESCE(amount, 0)) over the rows idx of table t
SumAmount(t, idx) ==
    IF idx = {} THEN 0
    ELSE LET i == CHOOSE j \in idx : TRUE
         IN Coalesce(t[i].amount, 0) + SumAmount(t, idx \ {i})

RECURSIVE SumQty(_, _)
\* SUM(COALESCE(qty, 1)) over the rows idx of table t
SumQty(t, idx) ==
    IF idx = {} THEN 0
    ELSE LET i == CHOOSE j \in idx : TRUE
         IN Coalesce(t[i].qty, 1) + SumQty(t, idx \ {i})

\* AVG(...) is a DOUBLE; stored in avg_order_value DECIMAL(10,2) it is
\* rounded to the nearest hundredth
AvgTruncated(sum, n) == sum \div n
AvgDecimal2(sum, n) ==
    IF sum >= 0 THEN (2 * sum + n) \div (2 * n)
    ELSE -((n - 2 * sum) \div (2 * n))

\* WHERE of the monthly revenue query; a comparison with NULL is not true
MonthlyWhereKeepsCancelled(r) ==
    /\ r.date_col # Null
    /\ r.category # Null
    /\ r.amount # Null /\ Val(r.amount) > 0
MonthlyWhere(r) ==
    /\ r.date_col # Null
    /\ r.category # Null
    /\ (r.status = Null \/ Val(r.status) # "Cancelled")
    /\ r.amount # Null /\ Val(r.amount) > 0

\* The SELECT of monthly_revenue_query: one row per (year_month, category)
MonthlyRevenueQuery(t) ==
    LET idx == {i \in DOMAIN t : MonthlyWhere(t[i])}
        key(i) == <<StrftimeYm(Val(t[i].date_col)), Val(t[i].category)>>
        grp(k) == {i \in idx : key(i) = k}
    IN {[year_month |-> k[1],
         category |-> k[2],
         total_revenue |-> SumAmount(t, grp(k)),
         order_count |-> Cardinality(grp(k)),
         avg_order_value |-> AvgDecimal2(SumAmount(t, grp(k)), Cardinality(grp(k)))]
        : k \in {key(i) : i \in idx}}

\* WHERE of the daily orders query
DailyWhereSkipsCancelled(r) ==
    /\ r.date_col # Null
    /\ r.status # Null
    /\ Val(r.status) # "Cancelled"
DailyWhere(r) ==
    /\ r.date_col # Null
    /\ r.status # Null

\* The SELECT of daily_orders_query: one row per (date_col, status)
DailyOrdersQuery(t) ==
    LET idx == {i \in DOMAIN t : DailyWhere(t[i])}
        key(i) == <<Val(t[i].date_col), Val(t[i].status)>>
        grp(k) == {i \in idx : key(i) = k}
    IN {[order_date |-> k[1],
         status |-> k[2],
         order_count |-> Cardinality(grp(k)),
         total_quantity |-> SumQty(t, grp(k)),
         total_amount |-> SumAmount(t, grp(k))]
        : k \in {key(i) : i \in idx}}

\* quality_check: MIN(amount) and MAX(amount) over the rows with a date are
\* NULL when no such row has an amount, and formatting None with :.2f raises
QualityCheckPrintsNone(t) == FALSE
QualityCheckRaises(t) ==
    \A i \in DOMAIN t : t[i].date_col # Null => t[i].amount = Null

\* DELETE FROM table
DeleteKeeps(table) == table
DeleteFrom(table) == EmptyBag

\* INSERT INTO table SELECT ...
InsertInto(table, selected) == table (+) SetToBag(selected)

\* SELECT COUNT(*) FROM table
CountRows(table) == BagCardinality(table)

----------------------------------------------------------------------------
(* create_monthly_revenue_table, one step per statement *)

\* FROM raw_table: the statements read the raw table; the argument
\* records_inserted of the op appears in none of them
FromFirst(table, arg) ==
    SubSeq(table, 1, IF arg < Len(table) THEN arg ELSE Len(table))
FromRaw(table, arg) == table

\* The op is invoked with the argument records_inserted (arg) between ops of the processing
\* chain; it counts the raw rows.  mprev records what the invocation found
\* and was given, and what the invocation before it was given.
create_monthly_revenue_table_begin(arg) ==
    /\ mpc \in {"idle", "done", "failed"}
    /\ stage \in {"idle", "inserted"}
    /\ mprev' = [table |-> monthly_revenue, ok |-> mpc = "done",
                 raw_count |-> m_raw_count, ret |-> revenue_records,
                 records_inserted |-> arg,
                 before |-> mprev.records_inserted]
    /\ m_raw_count' = Len(FromRaw(raw_amazon_sales, arg))
    /\ mpc' = "quality_check"
    /\ UNCHANGED <<monthly_revenue, revenue_records>>
    /\ UNCHANGED <<procVars, dailyVars>>

create_monthly_revenue_table_quality_check ==
    /\ mpc = "quality_check"
    /\ mpc' = IF QualityCheckRaises(raw_amazon_sales) THEN "failed" ELSE "delete"
    /\ UNCHANGED <<monthly_revenue, m_raw_count, revenue_records, mprev>>
    /\ UNCHANGED <<procVars, dailyVars>>

create_monthly_revenue_table_delete ==
    /\ mpc = "delete"
    /\ monthly_revenue' = DeleteFrom(monthly_revenue)
    /\ mpc' = "insert"
    /\ UNCHANGED <<m_raw_count, revenue_records, mprev>>
    /\ UNCHANGED <<procVars, dailyVars>>

create_monthly_revenue_table_insert ==
    /\ mpc = "insert"
    /\ monthly_revenue' =
          InsertInto(monthly_revenue,
                     MonthlyRevenueQuery(FromRaw(raw_amazon_sales,
                                                 mprev.records_inserted)))
    /\ mpc' = "count"
    /\ UNCHANGED <<m_raw_count, revenue_records, mprev>>
    /\ UNCHANGED <<procVars, dailyVars>>

\* The INSERT is rejected by the store: the exception leaves the op after
\* the DELETE has been done
create_monthly_revenue_table_insert_fails ==
    /\ mpc = "insert"
    /\ mpc' = "failed"
    /\ UNCHANGED <<monthly_revenue, m_raw_count, revenue_records, mprev>>
    /\ UNCHANGED <<procVars, dailyVars>>

create_monthly_revenue_table_count ==
    /\ mpc = "count"
    /\ revenue_records' = CountRows(monthly_revenue)
    /\ mpc' = "done"
    /\ UNCHANGED <<monthly_revenue, m_raw_count, mprev>>
    /\ UNCHANGED <<procVars, dailyVars>>

----------------------------------------------------------------------------
(* create_daily_orders_table, one step per statement *)

create_daily_orders_table_begin(arg) ==
    /\ dpc \in {"idle", "done", "failed"}
    /\ stage \in {"idle", "inserted"}
    /\ dprev' = [table |-> daily_orders, ok |-> dpc = "done",
                 raw_count |-> d_raw_count, ret |-> order_records,
                 records_inserted |-> arg,
                 before |-> dprev.records_inserted]
    /\ d_raw_count' = Len(FromRaw(raw_amazon_sales, arg))
    /\ dpc' = "date_check"
    /\ UNCHANGED <<daily_orders, order_records>>
    /\ UNCHANGED <<procVars, monthlyVars>>

\* date_check and status_sample only read and log; None prints as 'None'
create_daily_orders_table_date_check ==
    /\ dpc = "date_check"
    /\ dpc' = "delete"
    /\ UNCHANGED <<daily_orders, d_raw_count, order_records, dprev>>
    /\ UNCHANGED <<procVars, monthlyVars>>

\* DELETE FROM revenue_table and DELETE FROM orders_table in one op
create_daily_orders_table_delete_both ==
    /\ dpc = "delete"
    /\ daily_orders' = DeleteFrom(daily_orders)
    /\ monthly_revenue' = DeleteFrom(monthly_revenue)
    /\ dpc' = "insert"
    /\ UNCHANGED <<d_raw_count, order_records, dprev>>
    /\ UNCHANGED <<procVars, mpc, m_raw_count, revenue_records, mprev>>

\* DELETE FROM orders_table
create_daily_orders_table_delete ==
    /\ dpc = "delete"
    /\ daily_orders' = DeleteFrom(daily_orders)
    /\ dpc' = "insert"
    /\ UNCHANGED <<d_raw_count, order_records, dprev>>
    /\ UNCHANGED <<procVars, monthlyVars>>

create_daily_orders_table_insert ==
    /\ dpc = "insert"
    /\ daily_orders' =
          InsertInto(daily_orders,
                     DailyOrdersQuery(FromRaw(raw_amazon_sales,
                                              dprev.records_inserted)))
    /\ dpc' = "count"
    /\ UNCHANGED <<d_raw_count, order_records, dprev>>
    /\ UNCHANGED <<procVars, monthlyVars>>

create_daily_orders_table_insert_fails ==
    /\ dpc = "insert"
    /\ dpc' = "failed"
    /\ UNCHANGED <<daily_orders, d_raw_count, order_records, dprev>>
    /\ UNCHANGED <<procVars, monthlyVars>>

create_daily_orders_table_count ==
    /\ dpc = "count"
    /\ order_records' = CountRows(daily_orders)
    /\ dpc' = "done"
    /\ UNCHANGED <<daily_orders, d_raw_count, dprev>>
    /\ UNCHANGED <<procVars, monthlyVars>>

----------------------------------------------------------------------------
(* amazon_sales_pipeline *)

\* A run of the job calls the five ops in the order of their inputs: each op
\* takes the value the op before it returned, so it starts when that op has
\* returned, and an op that raises ends the run as a failure.  job is the op
\* the run stands at.

JobOver == job \in {"idle", "success", "failure"}

\* The op that takes the value op returns; the last op ends the run
NextOp(op) ==
    CASE op = "load_csv_data" -> "clean_amazon_sales_data"
      [] op = "clean_amazon_sales_data" -> "insert_raw_data_to_duckdb"
      [] op = "insert_raw_data_to_duckdb" -> "create_daily_orders_table"
      [] op = "create_daily_orders_table" -> "create_monthly_revenue_table"
      [] op = "create_monthly_revenue_table" -> "success"

\* Where the run stands when op has returned or raised
JobAfterIgnoresFailure(op, raised) == NextOp(op)
JobAfter(op, raised) == IF raised THEN "failure" ELSE NextOp(op)

amazon_sales_pipeline_load_csv_data ==
    /\ JobOver
    /\ job_runs < MaxRuns
    /\ load_csv_data({csv_file})
    /\ job' = JobAfter("load_csv_data", stage' = "load_failed")
    /\ job_runs' = job_runs + 1
    /\ UNCHANGED connVars

amazon_sales_pipeline_clean_amazon_sales_data ==
    /\ job = "clean_amazon_sales_data"
    /\ clean_amazon_sales_data
    /\ job' = JobAfter("clean_amazon_sales_data", stage' = "clean_failed")
    /\ UNCHANGED <<job_runs, connVars>>

amazon_sales_pipeline_insert_raw_data_to_duckdb ==
    /\ job = "insert_raw_data_to_duckdb"
    /\ insert_raw_data_to_duckdb
    /\ job' = JobAfter("insert_raw_data_to_duckdb", FALSE)
    /\ UNCHANGED <<job_runs, connVars>>

amazon_sales_pipeline_create_daily_orders_table ==
    /\ job = "create_daily_orders_table"
    /\ \/ create_daily_orders_table_begin(records_inserted)
       \/ create_daily_orders_table_date_check
       \/ create_daily_orders_table_delete
       \/ create_daily_orders_table_insert
       \/ create_daily_orders_table_count
    /\ job' = IF dpc' = "done"
              THEN JobAfter("create_daily_orders_table", FALSE)
              ELSE job
    /\ UNCHANGED <<job_runs, connVars>>

amazon_sales_pipeline_create_monthly_revenue_table ==
    /\ job = "create_monthly_revenue_table"
    /\ \/ create_monthly_revenue_table_begin(order_records)
       \/ create_monthly_revenue_table_quality_check
       \/ create_monthly_revenue_table_delete
       \/ create_monthly_revenue_table_insert
       \/ create_monthly_revenue_table_count
    /\ job' = IF mpc' \in {"done", "failed"}
              THEN JobAfter("create_monthly_revenue_table", mpc' = "failed")
              ELSE job
    /\ UNCHANGED <<job_runs, connVars>>

----------------------------------------------------------------------------
(* duckdb_resource and DuckDBConnectionWrapper *)

\* A handle is the position of its wrapper in wrappers.  The connection of
\* a wrapper is the duckdb connection it holds: statements counts the
\* execute and register calls that reached it (the schema creation
\* included), close_calls its close() calls.  calls and close_calls of the
\* wrapper count the calls of its methods, returned_closed the times
\* duckdb_resource returned it when it was closed; finalized says that
\* __del__ has run.

NoCall == [method |-> "none", handle |-> 0, raised |-> FALSE]

\* tables.values()
Tables == {"raw_amazon_sales", "monthly_revenue", "daily_orders"}

\* CREATE TABLE IF NOT EXISTS name: the rows of a table that exists stay,
\* a table that does not exist is created without rows
CreateOrReplaceTable(name, existing, rows, empty) == empty
CreateTableIfNotExists(name, existing, rows, empty) ==
    IF name \in existing THEN rows ELSE empty

\* duckdb.connect(db_file)
duckdb_connect == [statements |-> 0, ddl |-> 0, close_calls |-> 0]

\* conn.execute(raw_table_ddl); conn.execute(monthly_revenue_ddl);
\* conn.execute(daily_orders_ddl): ddl counts the CREATE TABLE statements
ExecuteDDL(conn) ==
    [conn EXCEPT !.statements = @ + Cardinality(Tables),
                 !.ddl = @ + Cardinality(Tables)]

\* DuckDBConnectionWrapper.__init__
DuckDBConnectionWrapper(connection) ==
    [connection |-> connection, _closed |-> FALSE,
     calls |-> 0, close_calls |-> 0, returned_closed |-> 0,
     finalized |-> FALSE]

\* The process lives until the finalizer of a wrapper has run
ProcessAlive == \A h \in DOMAIN wrappers : ~wrappers[h].finalized

\* if _singleton_connection is not None
ReusesIfOpen(singleton) ==
    singleton # Null /\ ~wrappers[Val(singleton)]._closed
Reuses(singleton) == singleton # Null

\* _singleton_connection = wrapped_conn
ForgetSingleton(h) == Null
StoreSingleton(h) == Some(h)

\* The resource function: the singleton when there is one, else a new
\* connection, the schema created on it, wrapped and stored as the singleton
duckdb_resource ==
    /\ ProcessAlive
    /\ Len(returned) < MaxAcquire
    /\ IF Reuses(_singleton_connection)
       THEN LET h == Val(_singleton_connection) IN
            /\ returned' = Append(returned, h)
            /\ wrappers' =
                  [wrappers EXCEPT ![h].returned_closed =
                                      IF wrappers[h]._closed THEN @ + 1 ELSE @]
            /\ UNCHANGED <<_singleton_connection, schema>>
            /\ UNCHANGED <<raw_amazon_sales, monthly_revenue, daily_orders>>
       ELSE LET conn == ExecuteDDL(duckdb_connect)
                wrapped_conn == DuckDBConnectionWrapper(conn)
                h == Len(wrappers) + 1
            IN /\ raw_amazon_sales' =
                     CreateTableIfNotExists("raw_amazon_sales", schema,
                                            raw_amazon_sales, <<>>)
               /\ monthly_revenue' =
                     CreateTableIfNotExists("monthly_revenue", schema,
                                            monthly_revenue, EmptyBag)
               /\ daily_orders' =
                     CreateTableIfNotExists("daily_orders", schema,
                                            daily_orders, EmptyBag)
               /\ schema' = schema \cup Tables
               /\ wrappers' = Append(wrappers, wrapped_conn)
               /\ _singleton_connection' = StoreSingleton(h)
               /\ returned' = Append(returned, h)
    /\ call' = [method |-> "duckdb_resource",
                handle |-> returned'[Len(returned')], raised |-> FALSE]
    /\ UNCHANGED <<csv_file, cleaned_file, stage, records_inserted>>
    /\ UNCHANGED <<mpc, m_raw_count, revenue_records, mprev>>
    /\ UNCHANGED <<dpc, d_raw_count, order_records, dprev>>
    /\ UNCHANGED jobVars

\* if self._closed: raise RuntimeError("DuckDB connection is already closed")
AlreadyClosedIgnored(w) == FALSE
AlreadyClosed(w) == w._closed

\* execute and register: the guard, then the call of the connection
Forward(method, h) ==
    /\ ProcessAlive
    /\ wrappers[h].calls < MaxCalls
    /\ IF AlreadyClosed(wrappers[h])
       THEN /\ call' = [method |-> method, handle |-> h, raised |-> TRUE]
            /\ wrappers' = [wrappers EXCEPT ![h].calls = @ + 1]
       ELSE /\ call' = [method |-> method, handle |-> h, raised |-> FALSE]
            /\ wrappers' = [wrappers EXCEPT ![h].calls = @ + 1,
                                            ![h].connection.statements = @ + 1]
    /\ UNCHANGED <<_singleton_connection, returned, schema>>
    /\ UNCHANGED <<opVars, jobVars>>

execute(h) == Forward("execute", h)

register(h) == Forward("register", h)

\* The body of close: the connection is closed unless _closed is set
CloseUnguarded(w) ==
    [w EXCEPT !.connection.close_calls = @ + 1, !._closed = TRUE]
CloseBody(w) ==
    IF ~w._closed
    THEN [w EXCEPT !.connection.close_calls = @ + 1, !._closed = TRUE]
    ELSE w

close(h) ==
    /\ ProcessAlive
    /\ wrappers[h].calls < MaxCalls
    /\ wrappers' = [wrappers EXCEPT
                       ![h] = [CloseBody(@) EXCEPT !.calls = @ + 1,
                                                   !.close_calls = @ + 1]]
    /\ call' = [method |-> "close", handle |-> h, raised |-> FALSE]
    /\ UNCHANGED <<_singleton_connection, returned, schema>>
    /\ UNCHANGED <<opVars, jobVars>>

\* The finalizer calls close; it runs once, when the wrapper is destroyed
__del__(h) ==
    /\ ProcessAlive
    /\ wrappers' = [wrappers EXCEPT
                       ![h] = [CloseBody(@) EXCEPT !.close_calls = @ + 1,
                                                   !.finalized = TRUE]]
    /\ call' = [method |-> "__del__", handle |-> h, raised |-> FALSE]
    /\ UNCHANGED <<_singleton_connection, returned, schema>>
    /\ UNCHANGED <<opVars, jobVars>>

----------------------------------------------------------------------------
(* Initial states and source files *)

SourceColumns == {"Date", "Status", "Category", "Qty", "currency", "Amount"}

SourceRow(d, s, c, q, cur, a) ==
    [col \in SourceColumns |->
        CASE col = "Date" -> d
          [] col = "Status" -> s
          [] col = "Category" -> c
          [] col = "Qty" -> q
          [] col = "currency" -> cur
          [] col = "Amount" -> a]

Frame(rows) == [columns |-> SourceColumns, rows |-> rows]

NoRun == [table |-> EmptyBag, ok |-> FALSE, raw_count |-> 0, ret |-> 0,
          records_inserted |-> 0, before |-> 0]

\* The ops called one by one, outside a run of the job (as the tests and
\* run_analytics.py call them): the job and the connection stay as they are
Direct(op) == op /\ UNCHANGED <<jobVars, connVars>>

\* No run of the job has been started
NoJob ==
    /\ job = "idle"
    /\ job_runs = 0

\* The process has not called duckdb_resource yet
NoConnection ==
    /\ _singleton_connection = Null
    /\ wrappers = <<>>
    /\ returned = <<>>
    /\ call = NoCall

EmptyStore ==
    /\ schema = Tables
    /\ cleaned_file = Null
    /\ stage = "idle"
    /\ raw_amazon_sales = <<>>
    /\ records_inserted = 0
    /\ monthly_revenue = EmptyBag
    /\ daily_orders = EmptyBag
    /\ mpc = "idle" /\ m_raw_count = 0 /\ revenue_records = 0 /\ mprev = NoRun
    /\ dpc = "idle" /\ d_raw_count = 0 /\ order_records = 0 /\ dprev = NoRun

\* Source rows for the cleaner: every combination of the cells the rules read
CleanerRows ==
    {SourceRow(d, s, Some("Set"), Some(1), cur, a) :
        d \in {Null, Some(<<3, 31, 22>>), Some(<<13, 1, 22>>)},
        s \in {Null, Some("Shipped"), Some("Cancelled")},
        cur \in {Null, Some("USD")},
        a \in {Null, Some(299000)}}

InitClean ==
    /\ csv_file \in {Some(Frame(rows)) : rows \in SeqUpTo(CleanerRows, MaxBatch)}
    /\ EmptyStore
    /\ NoJob
    /\ NoConnection

NextClean ==
    \/ Direct(load_csv_data({csv_file}))
    \/ Direct(clean_amazon_sales_data)
    \/ Direct(insert_raw_data_to_duckdb)

SpecClean == InitClean /\ [][NextClean]_vars


\* Source rows of the pipeline specification: the three rows of the test
\* sample and a shipped row without amount, quantity and currency
PipelineRows ==
    {SourceRow(Some(<<3, 31, 22>>), Some("Shipped"), Some("Set"),
               Some(1), Some("INR"), Some(299000)),
     SourceRow(Some(<<4, 1, 22>>), Some("Cancelled"), Some("kurta"),
               Some(1), Some("INR"), Null),
     SourceRow(Some(<<4, 2, 22>>), Some("Shipped"), Some("Western Dress"),
               Some(2), Some("INR"), Some(599500)),
     SourceRow(Some(<<4, 2, 22>>), Some("Shipped"), Some("Western Dress"),
               Null, Null, Null)}

PipelineFiles ==
    {Null} \cup {Some(Frame(rows)) : rows \in SeqUpTo(PipelineRows, MaxBatch)}

Init ==
    /\ csv_file = Null
    /\ EmptyStore
    /\ NoJob
    /\ NoConnection

Busy(pc) == pc \notin {"idle", "done", "failed"}

\* One op at a time: the aggregators run one after the other
MonthlySteps ==
    \/ ~Busy(dpc)
       /\ create_monthly_revenue_table_begin(Len(raw_amazon_sales))
    \/ create_monthly_revenue_table_quality_check
    \/ create_monthly_revenue_table_delete
    \/ create_monthly_revenue_table_insert
    \/ create_monthly_revenue_table_count

DailySteps ==
    \/ ~Busy(mpc)
       /\ create_daily_orders_table_begin(Len(raw_amazon_sales))
    \/ create_daily_orders_table_date_check
    \/ create_daily_orders_table_delete
    \/ create_daily_orders_table_insert
    \/ create_daily_orders_table_count

Next ==
    \/ Direct(load_csv_data(PipelineFiles))
    \/ Direct(clean_amazon_sales_data)
    \/ Direct(insert_raw_data_to_duckdb)
    \/ Direct(MonthlySteps)
    \/ Direct(DailySteps)

Spec == Init /\ [][Next]_vars

\* Source rows of the aggregation specification: for each conjunct of the
\* two WHERE clauses a row that fails it alone, and rows that share a month,
\* a day, a category or a status
AggRows ==
    {SourceRow(Some(<<3, 31, 22>>), Some("Shipped"), Some("Set"),
               Some(1), Some("INR"), Some(299000)),
     SourceRow(Some(<<4, 2, 22>>), Some("Shipped"), Some("Western Dress"),
               Some(2), Some("INR"), Some(599500)),
     SourceRow(Some(<<4, 2, 22>>), Some("Shipped"), Some("Western Dress"),
               Null, Null, Some(100014)),
     SourceRow(Some(<<4, 1, 22>>), Some("Shipped"), Some("Western Dress"),
               Some(1), Some("INR"), Some(120000)),
     SourceRow(Some(<<4, 1, 22>>), Some("Cancelled"), Some("kurta"),
               Some(1), Some("INR"), Null),
     SourceRow(Some(<<4, 2, 22>>), Some("Cancelled"), Some("Western Dress"),
               Some(2), Some("USD"), Some(50000)),
     SourceRow(Some(<<3, 31, 22>>), Null, Some("Set"),
               Some(1), Some("INR"), Some(100000)),
     SourceRow(Null, Some("Shipped"), Some("Set"),
               Some(1), Some("INR"), Some(70000)),
     SourceRow(Some(<<3, 31, 22>>), Some("Shipped"), Null,
               Some(1), Some("INR"), Some(30000)),
     SourceRow(Some(<<4, 2, 22>>), Some("Shipped"), Some("Western Dress"),
               Some(1), Some("INR"), Some(0)),
     SourceRow(Some(<<4, 2, 22>>), Some("Shipped"), Some("Western Dress"),
               Some(3), Some("INR"), Null)}

\* The raw table after one run of the processing chain on an empty store
LoadedOnce(df_raw) == InsertedRows(AddIndex(Rename(CleanFrame(df_raw))))

InitAgg ==
    /\ \E rows \in SeqUpTo(AggRows, MaxAggRaw) :
          /\ csv_file = Some(Frame(rows))
          /\ cleaned_file = Some(CleanFrame(Frame(rows)))
          /\ raw_amazon_sales = LoadedOnce(Frame(rows))
          /\ records_inserted = Len(rows)
    /\ stage = "inserted"
    /\ schema = Tables
    /\ monthly_revenue = EmptyBag
    /\ daily_orders = EmptyBag
    /\ mpc = "idle" /\ m_raw_count = 0 /\ revenue_records = 0 /\ mprev = NoRun
    /\ dpc = "idle" /\ d_raw_count = 0 /\ order_records = 0 /\ dprev = NoRun
    /\ NoJob
    /\ NoConnection

NextAgg ==
    \/ Direct(MonthlySteps)
    \/ Direct(DailySteps)

SpecAgg == InitAgg /\ [][NextAgg]_vars

\* The job run again and again on one store; the source file is the one
\* the environment left and stays the same from run to run: no file, a file
\* of up to MaxBatch rows, or the sample file of the tests
SAMPLE_CSV_DATA ==
    Frame(<<SourceRow(Some(<<3, 31, 22>>), Some("Shipped"), Some("Set"),
                      Some(1), Some("INR"), Some(299000)),
            SourceRow(Some(<<4, 1, 22>>), Some("Cancelled"), Some("kurta"),
                      Some(1), Some("INR"), Null),
            SourceRow(Some(<<4, 2, 22>>), Some("Shipped"), Some("Western Dress"),
                      Some(2), Some("INR"), Some(599500))>>)

JobRows ==
    PipelineRows \cup
    {SourceRow(Some(<<13, 1, 22>>), Some("Shipped"), Some("Set"),
               Some(1), Some("INR"), Some(299000))}

JobFiles ==
    {Null, Some(SAMPLE_CSV_DATA)}
       \cup {Some(Frame(rows)) : rows \in SeqUpTo(JobRows, MaxBatch)}

InitJob ==
    /\ csv_file \in JobFiles
    /\ EmptyStore
    /\ NoJob
    /\ NoConnection

NextJob ==
    \/ amazon_sales_pipeline_load_csv_data
    \/ amazon_sales_pipeline_clean_amazon_sales_data
    \/ amazon_sales_pipeline_insert_raw_data_to_duckdb
    \/ amazon_sales_pipeline_create_daily_orders_table
    \/ amazon_sales_pipeline_create_monthly_revenue_table

SpecJob == InitJob /\ [][NextJob]_vars

\* The ops run one at a time on a store that may reject an INSERT
FailureSteps ==
    \/ insert_raw_data_to_duckdb_insert_fails
    \/ create_monthly_revenue_table_insert_fails
    \/ create_daily_orders_table_insert_fails

\* Source rows with and without an amount
FailRows ==
    {SourceRow(Some(<<3, 31, 22>>), Some("Shipped"), Some("Set"),
               Some(1), Some("INR"), Some(299000)),
     SourceRow(Some(<<4, 2, 22>>), Some("Shipped"), Some("Western Dress"),
               Null, Null, Null)}

FailFiles ==
    {Null} \cup {Some(Frame(rows)) : rows \in SeqUpTo(FailRows, MaxBatch)}

NextFail ==
    \/ Direct(load_csv_data(FailFiles))
    \/ Direct(clean_amazon_sales_data)
    \/ Direct(insert_raw_data_to_duckdb)
    \/ Direct(MonthlySteps)
    \/ Direct(DailySteps)
    \/ Direct(FailureSteps)

SpecFail == Init /\ [][NextFail]_vars

\* The two aggregators run at the same time on the shared handle, on the
\* raw table one load has left; a statement is one step
InitInterleave ==
    /\ csv_file = Null
    /\ cleaned_file = Null
    /\ \E rows \in SeqUpTo(PipelineRows, MaxBatch) :
          raw_amazon_sales = LoadedOnce(Frame(rows))
    /\ records_inserted = Len(raw_amazon_sales)
    /\ stage = "inserted"
    /\ schema = Tables
    /\ monthly_revenue = EmptyBag
    /\ daily_orders = EmptyBag
    /\ mpc = "idle" /\ m_raw_count = 0 /\ revenue_records = 0 /\ mprev = NoRun
    /\ dpc = "idle" /\ d_raw_count = 0 /\ order_records = 0 /\ dprev = NoRun
    /\ NoJob
    /\ NoConnection

NextInterleave ==
    \/ Direct(create_monthly_revenue_table_begin(Len(raw_amazon_sales)))
    \/ Direct(create_monthly_revenue_table_quality_check)
    \/ Direct(create_monthly_revenue_table_delete)
    \/ Direct(create_monthly_revenue_table_insert)
    \/ Direct(create_monthly_revenue_table_count)
    \/ Direct(create_daily_orders_table_begin(Len(raw_amazon_sales)))
    \/ Direct(create_daily_orders_table_date_check)
    \/ Direct(create_daily_orders_table_delete)
    \/ Direct(create_daily_orders_table_insert)
    \/ Direct(create_daily_orders_table_count)

SpecInterleave == InitInterleave /\ [][NextInterleave]_vars

\* The aggregators run one after the other, each invoked with any integer
\* up to MaxTrigger or with the count the other one returned
MaxTrigger == 3

Triggers == 0..MaxTrigger

NextTrigger ==
    \/ \E n \in Triggers \cup {order_records} :
          ~Busy(dpc) /\ Direct(create_monthly_revenue_table_begin(n))
    \/ Direct(create_monthly_revenue_table_quality_check)
    \/ Direct(create_monthly_revenue_table_delete)
    \/ Direct(create_monthly_revenue_table_insert)
    \/ Direct(create_monthly_revenue_table_count)
    \/ \E n \in Triggers \cup {revenue_records} :
          ~Busy(mpc) /\ Direct(create_daily_orders_table_begin(n))
    \/ Direct(create_daily_orders_table_date_check)
    \/ Direct(create_daily_orders_table_delete)
    \/ Direct(create_daily_orders_table_insert)
    \/ Direct(create_daily_orders_table_count)

SpecTrigger == InitInterleave /\ [][NextTrigger]_vars

\* Cleaned files as the tests write them, with any of these columns: three
\* of them ("date", "Sales Channel" without the trailing blank, and
\* "Unnamed: 22") are not keys of column_mapping
LoadColumns ==
    {"Date", "date", "Status", "Category", "Amount", "Order ID",
     "Sales Channel", "Unnamed: 22", "index_id"}

\* The cell of column c in row i of such a file
LoadCell(c, i) ==
    CASE c = "Date" -> Some(20220400 + i)
      [] c = "date" -> Some(20210100 + i)
      [] c = "Status" -> Some(IF i = 1 THEN "Shipped" ELSE "Cancelled")
      [] c = "Category" -> Some("Set")
      [] c = "Amount" -> IF i = 2 THEN Null ELSE Some(299004 + i)
      [] c = "Order ID" -> Some(400 + i)
      [] c = "Sales Channel" -> Some("Amazon.in")
      [] c = "Unnamed: 22" -> Null
      [] c = "index_id" -> Some(70 + i)

LoadFrame(cols, n) ==
    [columns |-> cols,
     rows |-> [i \in 1..n |-> [c \in cols |-> LoadCell(c, i)]]]

\* The loader alone, on a cleaned file of 1..MaxBatch rows and a raw table
\* that is empty or holds the rows of an earlier load
InitLoad ==
    /\ csv_file = Null
    /\ \E cols \in (SUBSET LoadColumns) \ {{}}, n \in 1..MaxBatch :
          cleaned_file = Some(LoadFrame(cols, n))
    /\ \E rows \in SeqUpTo(PipelineRows, MaxBatch - 1) :
          raw_amazon_sales = LoadedOnce(Frame(rows))
    /\ records_inserted = Len(raw_amazon_sales)
    /\ stage = "cleaned"
    /\ schema = Tables
    /\ monthly_revenue = EmptyBag
    /\ daily_orders = EmptyBag
    /\ mpc = "idle" /\ m_raw_count = 0 /\ revenue_records = 0 /\ mprev = NoRun
    /\ dpc = "idle" /\ d_raw_count = 0 /\ order_records = 0 /\ dprev = NoRun
    /\ NoJob
    /\ NoConnection

NextLoad ==
    \/ Direct(insert_raw_data_to_duckdb)
    \/ Direct(insert_raw_data_to_duckdb_insert_fails)

SpecLoad == InitLoad /\ [][NextLoad]_vars

\* One process that calls duckdb_resource and the methods of the handles.
\* The store file is new, or it is the file an earlier process left: with
\* the raw table only, or with the three tables after a run of the job on
\* up to MaxBatch rows
InitConn ==
    /\ csv_file = Null
    /\ cleaned_file = Null
    /\ stage = "idle"
    /\ records_inserted = 0
    /\ mpc = "idle" /\ m_raw_count = 0 /\ revenue_records = 0 /\ mprev = NoRun
    /\ dpc = "idle" /\ d_raw_count = 0 /\ order_records = 0 /\ dprev = NoRun
    /\ NoJob
    /\ NoConnection
    /\ \E rows \in SeqUpTo(PipelineRows, MaxBatch) :
          LET left == LoadedOnce(Frame(rows)) IN
          \/ /\ schema = {}
             /\ rows = <<>>
             /\ raw_amazon_sales = <<>>
             /\ monthly_revenue = EmptyBag
             /\ daily_orders = EmptyBag
          \/ /\ schema = {"raw_amazon_sales"}
             /\ raw_amazon_sales = left
             /\ monthly_revenue = EmptyBag
             /\ daily_orders = EmptyBag
          \/ /\ schema = Tables
             /\ raw_amazon_sales = left
             /\ monthly_revenue = SetToBag(MonthlyRevenueQuery(left))
             /\ daily_orders = SetToBag(DailyOrdersQuery(left))

NextConn ==
    \/ duckdb_resource
    \/ \E h \in DOMAIN wrappers : execute(h)
    \/ \E h \in DOMAIN wrappers : register(h)
    \/ \E h \in DOMAIN wrappers : close(h)
    \/ \E h \in DOMAIN wrappers : __del__(h)

SpecConn == InitConn /\ [][NextConn]_vars

----------------------------------------------------------------------------
(* Properties *)

\* The source frame and the cleaned frame of the run that has just cleaned
SourceRows == Val(csv_file).rows
CleanedRows == Val(cleaned_file).rows
JustCleaned == stage = "cleaned" /\ Len(CleanedRows) = Len(SourceRows)

\* C1: every source row with Status == "Cancelled" and a null Amount has
\* Amount == 0.0 in the row clean_amazon_sales_data produces for it.
C1_CancelledMissingAmountIsZero ==
    stage = "cleaned" =>
        /\ Len(CleanedRows) = Len(SourceRows)
        /\ \A i \in DOMAIN SourceRows :
              (SourceRows[i]["Status"] = Some("Cancelled")
                 /\ SourceRows[i]["Amount"] = Null)
              => CleanedRows[i]["Amount"] = Some(0)

C1_Witness ==
    /\ JustCleaned
    /\ \E i \in DOMAIN SourceRows :
          /\ SourceRows[i]["Status"] = Some("Cancelled")
          /\ SourceRows[i]["Amount"] = Null
          /\ CleanedRows[i]["Amount"] = Some(0)

\* C2: every source row with Status != "Cancelled" (a missing Status
\* included) and a null Amount keeps a null Amount and carries
\* data_quality_flag == "missing_amount_non_cancelled" after cleaning; such a
\* row is no error: cleaning fails only when a Date does not parse, and the
\* loader stores the flagged row with its null amount.
C2_NonCancelledMissingAmountFlagged ==
    /\ stage = "cleaned" =>
          /\ Len(CleanedRows) = Len(SourceRows)
          /\ \A i \in DOMAIN SourceRows :
                (SourceRows[i]["Status"] # Some("Cancelled")
                   /\ SourceRows[i]["Amount"] = Null)
                => /\ CleanedRows[i]["Amount"] = Null
                   /\ "data_quality_flag" \in DOMAIN CleanedRows[i]
                   /\ CleanedRows[i]["data_quality_flag"]
                        = Some("missing_amount_non_cancelled")
    /\ stage = "clean_failed" =>
          \E i \in DOMAIN SourceRows :
              /\ ~DateMatches(SourceRows[i]["Date"])
    /\ stage = "inserted" =>
          \A i \in DOMAIN SourceRows :
              (SourceRows[i]["Status"] # Some("Cancelled")
                 /\ SourceRows[i]["Amount"] = Null)
              => \E k \in DOMAIN raw_amazon_sales :
                    /\ raw_amazon_sales[k].index_id = Some(i - 1)
                    /\ raw_amazon_sales[k].amount = Null
                    /\ raw_amazon_sales[k].data_quality_flag
                         = Some("missing_amount_non_cancelled")

C2_Witness ==
    /\ stage = "inserted"
    /\ \E i \in DOMAIN SourceRows :
          /\ SourceRows[i]["Status"] = Some("Shipped")
          /\ SourceRows[i]["Amount"] = Null
    /\ \E k \in DOMAIN raw_amazon_sales :
          /\ raw_amazon_sales[k].status = Some("Shipped")
          /\ raw_amazon_sales[k].amount = Null
          /\ raw_amazon_sales[k].data_quality_flag
               = Some("missing_amount_non_cancelled")

\* C3: after cleaning no row has a null currency: a row whose source
\* currency was null has currency == "INR", every other row keeps its
\* source currency.
C3_CurrencyDefault ==
    stage = "cleaned" =>
        /\ Len(CleanedRows) = Len(SourceRows)
        /\ \A i \in DOMAIN SourceRows :
              /\ CleanedRows[i]["currency"] # Null
              /\ SourceRows[i]["currency"] = Null
                   => CleanedRows[i]["currency"] = Some("INR")
              /\ SourceRows[i]["currency"] # Null
                   => CleanedRows[i]["currency"] = SourceRows[i]["currency"]

C3_Witness ==
    /\ JustCleaned
    /\ \E i, j \in DOMAIN SourceRows :
          /\ SourceRows[i]["currency"] = Null
          /\ CleanedRows[i]["currency"] = Some("INR")
          /\ SourceRows[j]["currency"] = Some("USD")
          /\ CleanedRows[j]["currency"] = Some("USD")

----------------------------------------------------------------------------
(* Properties of the aggregators *)

RECURSIVE SeqSum(_)
SeqSum(s) == IF s = <<>> THEN 0 ELSE Head(s) + SeqSum(Tail(s))

\* Year and month of a date yyyymmdd, as yyyymm
YearMonthOf(d) == (d \div 10000) * 100 + ((d \div 100) % 100)

Cancelled(r) == r.status = Some("Cancelled")

\* A raw row qualifies for monthly revenue
Qualifies(r) ==
    /\ r.date_col # Null
    /\ r.category # Null
    /\ ~Cancelled(r)
    /\ r.amount # Null
    /\ Val(r.amount) > 0

\* The qualifying raw rows of one (year-month, category) pair
QualifyingRows(ym, cat) ==
    SelectSeq(raw_amazon_sales,
              LAMBDA r : /\ Qualifies(r)
                         /\ YearMonthOf(Val(r.date_col)) = ym
                         /\ r.category = Some(cat))

QualifyingAmounts(ym, cat) ==
    [i \in DOMAIN QualifyingRows(ym, cat) |-> Val(QualifyingRows(ym, cat)[i].amount)]

\* create_monthly_revenue_table has returned and the raw table is the one it read
MonthlyRebuilt == mpc = "done" /\ m_raw_count = Len(raw_amazon_sales)
DailyRebuilt == dpc = "done" /\ d_raw_count = Len(raw_amazon_sales)

MonthlyRows == BagToSet(monthly_revenue)
DailyRows == BagToSet(daily_orders)

\* C4: no raw row with status == "Cancelled" contributes to a row of
\* monthly_revenue: every row of the table is a row the query yields on the
\* raw table with its cancelled rows taken out, and after a rebuild the table
\* is exactly that result.
C4_CancelledNeverInMonthlyRevenue ==
    LET kept == SelectSeq(raw_amazon_sales, LAMBDA r : ~Cancelled(r))
        expected == MonthlyRevenueQuery(kept)
    IN /\ MonthlyRows \subseteq expected
       /\ MonthlyRebuilt => MonthlyRows = expected

C4_Witness ==
    /\ MonthlyRebuilt
    /\ \E k \in DOMAIN raw_amazon_sales, m \in MonthlyRows :
          /\ Cancelled(raw_amazon_sales[k])
          /\ raw_amazon_sales[k].amount # Null
          /\ Val(raw_amazon_sales[k].amount) > 0
          /\ raw_amazon_sales[k].category = Some(m.category)
          /\ YearMonthOf(Val(raw_amazon_sales[k].date_col)) = m.year_month

\* The rows of monthly_revenue and their keys, counts and sums after a rebuild
MonthlyGroupsExact ==
    /\ \A m \in MonthlyRows :
          /\ CopiesIn(m, monthly_revenue) = 1
          /\ Len(QualifyingRows(m.year_month, m.category)) >= 1
          /\ \A n \in MonthlyRows :
                (n.year_month = m.year_month /\ n.category = m.category) => n = m
    /\ \A i \in DOMAIN raw_amazon_sales :
          Qualifies(raw_amazon_sales[i]) =>
             \E m \in MonthlyRows :
                /\ m.year_month = YearMonthOf(Val(raw_amazon_sales[i].date_col))
                /\ Some(m.category) = raw_amazon_sales[i].category
    /\ \A m \in MonthlyRows :
          /\ m.total_revenue = SeqSum(QualifyingAmounts(m.year_month, m.category))
          /\ m.order_count = Len(QualifyingRows(m.year_month, m.category))

\* C5 as claimed: after a successful create_monthly_revenue_table the table
\* holds exactly one row per (year-month, category) with a qualifying raw
\* row, total_revenue the sum and order_count the number of the qualifying
\* rows, and avg_order_value equal to total_revenue divided by order_count.
C5_AsClaimed ==
    MonthlyRebuilt =>
        /\ MonthlyGroupsExact
        /\ \A m \in MonthlyRows :
              m.avg_order_value * m.order_count = m.total_revenue

\* C5, amended: as claimed, but avg_order_value is total_revenue divided by
\* order_count rounded to the nearest hundredth, the scale of its column.
C5_MonthlyRevenueRows ==
    MonthlyRebuilt =>
        /\ MonthlyGroupsExact
        /\ \A m \in MonthlyRows :
              LET diff == m.avg_order_value * m.order_count - m.total_revenue
              IN 2 * diff <= m.order_count /\ -2 * diff <= m.order_count

C5_Witness ==
    /\ MonthlyRebuilt
    /\ \E m \in MonthlyRows :
          /\ m.order_count >= 2
          /\ m.avg_order_value * m.order_count # m.total_revenue
    /\ \E i \in DOMAIN raw_amazon_sales : ~Qualifies(raw_amazon_sales[i])

\* The raw rows of one (date, status) pair
DailyGroup(d, st) ==
    SelectSeq(raw_amazon_sales,
              LAMBDA r : r.date_col = Some(d) /\ r.status = Some(st))

\* C6: after a successful create_daily_orders_table the table holds exactly
\* one row per (date_col, status) pair of the raw rows with non-null date and
\* status, cancelled rows included, whatever their amount and category;
\* order_count is the number of those rows, total_quantity the sum of qty
\* with null as 1, total_amount the sum of amount with null as 0.
C6_DailyOrdersRows ==
    DailyRebuilt =>
        /\ \A o \in DailyRows :
              /\ CopiesIn(o, daily_orders) = 1
              /\ Len(DailyGroup(o.order_date, o.status)) >= 1
              /\ \A n \in DailyRows :
                    (n.order_date = o.order_date /\ n.status = o.status) => n = o
        /\ \A i \in DOMAIN raw_amazon_sales :
              (raw_amazon_sales[i].date_col # Null
                 /\ raw_amazon_sales[i].status # Null) =>
                 \E o \in DailyRows :
                    /\ Some(o.order_date) = raw_amazon_sales[i].date_col
                    /\ Some(o.status) = raw_amazon_sales[i].status
        /\ \A o \in DailyRows :
              LET g == DailyGroup(o.order_date, o.status) IN
              /\ o.order_count = Len(g)
              /\ o.total_quantity =
                    SeqSum([i \in DOMAIN g |->
                              IF g[i].qty = Null THEN 1 ELSE Val(g[i].qty)])
              /\ o.total_amount =
                    SeqSum([i \in DOMAIN g |->
                              IF g[i].amount = Null THEN 0 ELSE Val(g[i].amount)])

C6_Witness ==
    /\ DailyRebuilt
    /\ \E o \in DailyRows : o.status = "Cancelled" /\ o.order_count >= 1
    /\ \E o \in DailyRows :
          LET g == DailyGroup(o.order_date, o.status) IN
          /\ \E i \in DOMAIN g : g[i].qty = Null
          /\ \E i \in DOMAIN g : g[i].amount = Null
          /\ \E i \in DOMAIN g : g[i].category = Null \/ g[i].amount # Null

----------------------------------------------------------------------------
(* Properties of the rebuild protocol and of the loader *)

\* C7: after a successful rebuild by either aggregator the destination table
\* holds only rows the query yields on the current raw table, each once: a
\* row that was in the table before the rebuild survives only when the
\* current raw table produces it again.
C7_NoStaleRowsAfterRebuild ==
    /\ MonthlyRebuilt =>
          monthly_revenue \sqsubseteq SetToBag(MonthlyRevenueQuery(raw_amazon_sales))
    /\ DailyRebuilt =>
          daily_orders \sqsubseteq SetToBag(DailyOrdersQuery(raw_amazon_sales))

C7_Witness ==
    /\ MonthlyRebuilt
    /\ DailyRebuilt
    /\ \E m \in BagToSet(mprev.table) : m \notin MonthlyRows
    /\ \E o \in BagToSet(dprev.table) : o \notin DailyRows
    /\ MonthlyRows # {}
    /\ DailyRows # {}

\* C8: a run of an aggregator that follows a successful run of the same
\* aggregator with the raw table unchanged in between leaves the destination
\* table with the rows it had and returns the same row count.
C8_RebuildIdempotent ==
    /\ (mpc = "done" /\ mprev.ok /\ mprev.raw_count = m_raw_count) =>
          /\ monthly_revenue = mprev.table
          /\ revenue_records = mprev.ret
    /\ (dpc = "done" /\ dprev.ok /\ dprev.raw_count = d_raw_count) =>
          /\ daily_orders = dprev.table
          /\ order_records = dprev.ret

C8_Witness ==
    /\ mpc = "done" /\ mprev.ok /\ mprev.raw_count = m_raw_count
    /\ dpc = "done" /\ dprev.ok /\ dprev.raw_count = d_raw_count
    /\ revenue_records >= 1
    /\ order_records >= 2

\* C9: with an empty raw table create_monthly_revenue_table and
\* create_daily_orders_table each complete without raising, return 0 and
\* leave their destination table empty.
C9_EmptyRawTableReturnsZero ==
    /\ (raw_amazon_sales = <<>> /\ ~Busy(mpc) /\ mpc # "idle") =>
          /\ mpc = "done"
          /\ revenue_records = 0
          /\ monthly_revenue = EmptyBag
    /\ (raw_amazon_sales = <<>> /\ ~Busy(dpc) /\ dpc # "idle") =>
          /\ dpc = "done"
          /\ order_records = 0
          /\ daily_orders = EmptyBag

----------------------------------------------------------------------------
(* Properties of the runs of the job *)

RECURSIVE Repeat(_, _)
\* k copies of the sequence s, one after the other
Repeat(s, k) == IF k = 0 THEN <<>> ELSE Repeat(s, k - 1) \o s

\* The raw table t begins with the rows of s
IsPrefix(s, t) ==
    /\ Len(s) <= Len(t)
    /\ \A i \in DOMAIN s : t[i] = s[i]

\* The run of the job has got past the loader and is over
RunLoaded == job \in {"success", "failure"} /\ stage = "inserted"

\* C11: when the job has run k times on one store with the same n-row
\* source file, the raw table holds the k * n rows of the k batches in the
\* order of the runs, no step ever changes or removes a row the table holds,
\* and each summary table is the result of its query on the whole raw table.
C11_RerunsAppendAndRebuild ==
    /\ [](RunLoaded =>
            /\ Len(raw_amazon_sales) = job_runs * Len(SourceRows)
            /\ raw_amazon_sales = Repeat(LoadedOnce(Val(csv_file)), job_runs)
            /\ daily_orders = SetToBag(DailyOrdersQuery(raw_amazon_sales))
            /\ monthly_revenue = SetToBag(MonthlyRevenueQuery(raw_amazon_sales)))
    /\ [][IsPrefix(raw_amazon_sales, raw_amazon_sales')]_vars

C11_Witness ==
    /\ job = "success"
    /\ job_runs >= 2
    /\ Len(SourceRows) >= 1
    /\ Len(raw_amazon_sales) = job_runs * Len(SourceRows)
    /\ \E m \in MonthlyRows : m.order_count = job_runs
    /\ monthly_revenue # SetToBag(MonthlyRevenueQuery(LoadedOnce(Val(csv_file))))
    /\ BagCardinality(monthly_revenue) = 1
    /\ daily_orders # SetToBag(DailyOrdersQuery(LoadedOnce(Val(csv_file))))

----------------------------------------------------------------------------
(* Properties of duckdb_resource and of the connection wrapper *)

\* C12: within one process every call of duckdb_resource after the first
\* returns the handle the first call returned, and duckdb.connect is called
\* at most once, however many times duckdb_resource is called.
C12_SingletonHandle ==
    /\ \A i \in DOMAIN returned : returned[i] = returned[1]
    /\ Len(wrappers) <= 1
    /\ returned # <<>> => Len(wrappers) = 1

C12_Witness ==
    /\ Len(returned) >= 3
    /\ returned[3] = returned[1]
    /\ Len(wrappers) = 1

\* A step in which method is called on the wrapper h
Called(method, h) ==
    /\ call'.method = method
    /\ call'.handle = h
    /\ wrappers'[h].calls = wrappers[h].calls + 1

\* C13: once close has been called on a wrapper, every later execute or
\* register call on it raises the "already closed" error and does not reach
\* the connection, and _closed, once set, stays set.
C13_ClosedWrapperRejectsCalls ==
    [][\A h \in DOMAIN wrappers :
          /\ wrappers[h]._closed => wrappers'[h]._closed
          /\ wrappers[h].close_calls >= 1 =>
                /\ wrappers[h]._closed
                /\ wrappers'[h].connection.statements
                      = wrappers[h].connection.statements
                /\ (Called("execute", h) \/ Called("register", h))
                      => call'.raised]_vars

C13_Witness ==
    /\ \E h \in DOMAIN wrappers :
          /\ wrappers[h].close_calls >= 1
          /\ wrappers[h].calls >= 3
          /\ wrappers[h].connection.statements = 4
          /\ call = [method |-> "register", handle |-> h, raised |-> TRUE]

\* C14: over any sequence of close calls on a wrapper, the one of __del__
\* included, close of the connection is called exactly once, and no call of
\* close raises.
C14_CloseIdempotent ==
    /\ \A h \in DOMAIN wrappers :
          /\ wrappers[h].close_calls = 0 =>
                wrappers[h].connection.close_calls = 0
          /\ wrappers[h].close_calls >= 1 =>
                wrappers[h].connection.close_calls = 1
    /\ call.method \in {"close", "__del__"} => ~call.raised

C14_Witness ==
    \E h \in DOMAIN wrappers :
        /\ wrappers[h].close_calls >= 3
        /\ wrappers[h].finalized
        /\ wrappers[h].connection.close_calls = 1

----------------------------------------------------------------------------
(* Further properties of clean_amazon_sales_data *)

\* The source file has a row whose Date does not match %m-%d-%y
BadDate == \E i \in DOMAIN SourceRows : ~DateMatches(SourceRows[i]["Date"])

\* C15: when a row of the batch has a Date that does not match the format,
\* clean_amazon_sales_data fails for the whole batch, whatever the other
\* rows are: it writes no cleaned file and returns no path, so nothing of the
\* batch is cleaned or loaded.
C15_BadDateFailsWholeBatch ==
    /\ []((csv_file # Null /\ BadDate) =>
             /\ stage \notin {"cleaned", "inserted"}
             /\ cleaned_file = Null
             /\ raw_amazon_sales = <<>>)
    /\ [][(stage = "source" /\ BadDate) =>
             /\ stage' = "clean_failed"
             /\ cleaned_file' = cleaned_file]_vars

C15_Witness ==
    /\ stage = "clean_failed"
    /\ cleaned_file = Null
    /\ Len(SourceRows) = 2
    /\ ~DateMatches(SourceRows[2]["Date"])
    /\ SourceRows[1]["Date"] = Some(<<3, 31, 22>>)

----------------------------------------------------------------------------
(* Properties of the order of the ops in a run of the job *)

\* The tables and files the ops write
Written == <<cleaned_file, raw_amazon_sales, monthly_revenue, daily_orders>>

\* C16: in a run of the job the ops run in the order load_csv_data,
\* clean_amazon_sales_data, insert_raw_data_to_duckdb, then the aggregators,
\* each only when the op before it has returned: the insert of the loader is
\* complete while an aggregator runs.  When an op raises (the source file is
\* missing, a Date does not parse, the monthly aggregator raises) the run is
\* a failure and no later op of the run starts or writes anything.
C16_StagesInOrder ==
    /\ [](/\ job = "clean_amazon_sales_data" => stage = "source"
          /\ job = "insert_raw_data_to_duckdb" => stage = "cleaned"
          /\ job \in {"create_daily_orders_table", "create_monthly_revenue_table"}
                => /\ stage = "inserted"
                   /\ records_inserted = Len(raw_amazon_sales)
          /\ Busy(dpc) => job = "create_daily_orders_table"
          /\ Busy(mpc) => job = "create_monthly_revenue_table"
          /\ job = "create_monthly_revenue_table" =>
                dpc = "done" /\ d_raw_count = Len(raw_amazon_sales)
          /\ job = "success" =>
                /\ stage = "inserted"
                /\ dpc = "done" /\ mpc = "done"
                /\ d_raw_count = Len(raw_amazon_sales)
                /\ m_raw_count = Len(raw_amazon_sales)
          /\ stage \in {"load_failed", "clean_failed"} => job = "failure"
          /\ (JobOver /\ mpc = "failed") => job = "failure"
          /\ stage = "load_failed" <=> (job # "idle" /\ csv_file = Null)
          /\ stage \in {"load_failed", "clean_failed"} =>
                /\ cleaned_file = Null
                /\ raw_amazon_sales = <<>>
                /\ dpc = "idle" /\ mpc = "idle"
                /\ daily_orders = EmptyBag /\ monthly_revenue = EmptyBag)
    /\ [][job = "failure" =>
             /\ UNCHANGED Written
             /\ ~Busy(dpc') /\ ~Busy(mpc')
             /\ stage' \in {stage, "source", "load_failed"}]_vars

C16_Witness ==
    /\ job = "failure"
    /\ job_runs >= 2
    /\ csv_file = Null
    /\ stage = "load_failed"


\* The rows of a summary table without avg_order_value
MonthlyTotals ==
    {[year_month |-> m.year_month, category |-> m.category,
      total_revenue |-> m.total_revenue, order_count |-> m.order_count]
        : m \in MonthlyRows}

\* The first run of the job, on the sample file of the tests
SampleRun == csv_file = Some(SAMPLE_CSV_DATA) /\ job_runs = 1

\* C17: a run of the job on an empty store with the three-row sample
\* (Shipped 299.0 Set 2022-03-31; Cancelled, no amount, kurta 2022-04-01;
\* Shipped 599.5 Western Dress 2022-04-02) cleans the second row to amount
\* 0.0, the loader returns 3, monthly_revenue gets exactly the rows
\* (2022-03, Set, 299.0, 1) and (2022-04, Western Dress, 599.5, 1), and
\* daily_orders gets exactly 3 rows, one of them (2022-04-01, Cancelled,
\* order_count 1, total_amount 0.0).
C17_SampleRun ==
    SampleRun =>
        /\ job # "failure"
        /\ cleaned_file # Null =>
              /\ Len(CleanedRows) = 3
              /\ CleanedRows[2]["Amount"] = Some(0)
        /\ stage = "inserted" =>
              /\ records_inserted = 3
              /\ Len(raw_amazon_sales) = 3
        /\ job = "success" =>
              /\ BagCardinality(monthly_revenue) = 2
              /\ MonthlyTotals =
                    {[year_month |-> 202203, category |-> "Set",
                      total_revenue |-> 29900, order_count |-> 1],
                     [year_month |-> 202204, category |-> "Western Dress",
                      total_revenue |-> 59950, order_count |-> 1]}
              /\ revenue_records = 2
              /\ BagCardinality(daily_orders) = 3
              /\ Cardinality(DailyRows) = 3
              /\ order_records = 3
              /\ \E o \in DailyRows :
                    /\ o.order_date = 20220401
                    /\ o.status = "Cancelled"
                    /\ o.order_count = 1
                    /\ o.total_amount = 0

C17_Witness ==
    /\ SampleRun
    /\ job = "success"
    /\ BagCardinality(monthly_revenue) = 2
    /\ BagCardinality(daily_orders) = 3

----------------------------------------------------------------------------
(* Properties of the amounts after cleaning and in the raw table *)

\* C18 as claimed: after cleaning, amount is non-null for every row whose
\* status is not "Cancelled", in the cleaned file and in the raw table after
\* any sequence of loads.
C18_AsClaimed ==
    /\ stage = "cleaned" =>
          \A i \in DOMAIN CleanedRows :
              CleanedRows[i]["Status"] # Some("Cancelled")
                 => CleanedRows[i]["Amount"] # Null
    /\ \A k \in DOMAIN raw_amazon_sales :
          ~Cancelled(raw_amazon_sales[k]) => raw_amazon_sales[k].amount # Null

\* C18, amended: after cleaning, amount is non-null for every row whose
\* status is "Cancelled"; a row of any other status has a null amount exactly
\* when its source amount was null, and then it carries the flag
\* "missing_amount_non_cancelled".  Both hold for the cleaned file and for
\* every row of the raw table after any sequence of loads.
C18_CancelledAmountNonNull ==
    /\ stage = "cleaned" =>
          /\ Len(CleanedRows) = Len(SourceRows)
          /\ \A i \in DOMAIN CleanedRows :
                /\ CleanedRows[i]["Status"] = Some("Cancelled")
                      => CleanedRows[i]["Amount"] # Null
                /\ CleanedRows[i]["Status"] # Some("Cancelled") =>
                      /\ CleanedRows[i]["Amount"] = SourceRows[i]["Amount"]
                      /\ CleanedRows[i]["Amount"] = Null =>
                            CleanedRows[i]["data_quality_flag"]
                               = Some("missing_amount_non_cancelled")
    /\ \A k \in DOMAIN raw_amazon_sales :
          /\ Cancelled(raw_amazon_sales[k]) => raw_amazon_sales[k].amount # Null
          /\ (~Cancelled(raw_amazon_sales[k]) /\ raw_amazon_sales[k].amount = Null)
                => raw_amazon_sales[k].data_quality_flag
                      = Some("missing_amount_non_cancelled")

C18_Witness ==
    /\ stage = "inserted"
    /\ Len(CleanedRows) = 1
    /\ Len(raw_amazon_sales) = 2
    /\ Cancelled(raw_amazon_sales[1])
    /\ raw_amazon_sales[1].amount = Some(0)
    /\ raw_amazon_sales[2].status = Some("Shipped")
    /\ raw_amazon_sales[2].amount = Null

----------------------------------------------------------------------------
(* Properties of the rules of the cleaner taken together *)

\* Rows of the source with a null Amount, cancelled and not
OriginalNulls == {i \in DOMAIN SourceRows : SourceRows[i]["Amount"] = Null}
OriginalCancelledNulls ==
    {i \in OriginalNulls : SourceRows[i]["Status"] = Some("Cancelled")}
OriginalOtherNulls ==
    {i \in OriginalNulls : SourceRows[i]["Status"] # Some("Cancelled")}

\* Rows whose missing Amount the cleaner set to 0.0, and rows it flagged
Zeroed == {i \in OriginalNulls : CleanedRows[i]["Amount"] = Some(0)}
Flagged ==
    {i \in DOMAIN CleanedRows :
        /\ "data_quality_flag" \in DOMAIN CleanedRows[i]
        /\ CleanedRows[i]["data_quality_flag"] # Null}

\* Rule 2 with its mask computed on the original frame orig
Rule2OnOriginal(orig, df) ==
    LET mask == {i \in DOMAIN orig.rows :
                    /\ orig.rows[i][status_col] # Some("Cancelled")
                    /\ orig.rows[i][amount_col] = Null}
    IN IF mask # {}
       THEN LocAssign(df, mask, "data_quality_flag",
                      Some("missing_amount_non_cancelled"))
       ELSE df

\* C19: the rows rule 2 selects, on the frame rule 1 has already changed,
\* are exactly the rows with status != "Cancelled" and a null amount in the
\* original input, so the cleaned frame is the one rule 2 yields with its
\* mask computed on the original; rules 1 and 2 select disjoint rows, every
\* row with an originally null amount (a null status included) is handled by
\* exactly one of them, and the zeroed and the flagged counts add up to the
\* number of originally null amounts.
C19_Rule2SelectsOriginalNulls ==
    stage = "cleaned" =>
        /\ Len(CleanedRows) = Len(SourceRows)
        /\ Flagged = OriginalOtherNulls
        /\ Zeroed = OriginalCancelledNulls
        /\ Zeroed \cap Flagged = {}
        /\ Zeroed \cup Flagged = OriginalNulls
        /\ Cardinality(Zeroed) + Cardinality(Flagged) = Cardinality(OriginalNulls)
        /\ Val(cleaned_file) =
              Rule4(Rule3(Rule2OnOriginal(Val(csv_file), Rule1(Val(csv_file)))))

C19_Witness ==
    /\ JustCleaned
    /\ \E i \in Zeroed : SourceRows[i]["Status"] = Some("Cancelled")
    /\ \E j \in Flagged : SourceRows[j]["Status"] = Null
    /\ Cardinality(OriginalNulls) = 2

\* C20: clean_amazon_sales_data writes as many rows as it reads, in the same
\* order, and changes nothing but what rules 1 to 4 prescribe: a non-null
\* Amount and a non-null currency are kept, the flag is set on no row other
\* than those of rule 2, the Date is the parsed source Date, and every other
\* field is copied.
C20_CleanerFrame ==
    stage = "cleaned" =>
        /\ Len(CleanedRows) = Len(SourceRows)
        /\ \A i \in DOMAIN SourceRows :
              /\ SourceRows[i]["Amount"] # Null
                    => CleanedRows[i]["Amount"] = SourceRows[i]["Amount"]
              /\ SourceRows[i]["currency"] # Null
                    => CleanedRows[i]["currency"] = SourceRows[i]["currency"]
              /\ i \in Flagged =>
                    /\ SourceRows[i]["Status"] # Some("Cancelled")
                    /\ SourceRows[i]["Amount"] = Null
              /\ CleanedRows[i]["Date"] = ToDatetime(SourceRows[i]["Date"])
              /\ \A c \in SourceColumns \ {"Amount", "currency", "Date"} :
                    CleanedRows[i][c] = SourceRows[i][c]
              /\ DOMAIN CleanedRows[i] \subseteq
                    SourceColumns \cup {"data_quality_flag"}

C20_Witness ==
    /\ JustCleaned
    /\ Len(SourceRows) = 2
    /\ SourceRows[1]["Status"] # SourceRows[2]["Status"]
    /\ SourceRows[1]["Date"] = Null
    /\ SourceRows[1]["Amount"] # Null
    /\ SourceRows[1]["currency"] = Some("USD")
    /\ 2 \in Flagged
    /\ CleanedRows[1]["data_quality_flag"] = Null


\* ---------------------------------------------------------------------
\* C21  The three CREATE TABLE statements run once on the connection of
\* every handle that is created and never on a call that reuses the
\* singleton; they create a table only when it is absent: a handle created
\* on a store that holds the three tables leaves their rows unchanged.

Creates == Len(wrappers') = Len(wrappers) + 1

Acquires == Len(returned') = Len(returned) + 1

DDLCount(h) == wrappers[h].connection.ddl

C21_SchemaCreatedIfAbsent ==
    /\ [](\A h \in DOMAIN wrappers : DDLCount(h) = Cardinality(Tables))
    /\ [][/\ Creates =>
             /\ schema' = Tables
             /\ \A h \in DOMAIN wrappers :
                   wrappers'[h].connection.ddl = DDLCount(h)
             /\ "raw_amazon_sales" \in schema =>
                   raw_amazon_sales' = raw_amazon_sales
             /\ "monthly_revenue" \in schema =>
                   monthly_revenue' = monthly_revenue
             /\ "daily_orders" \in schema =>
                   daily_orders' = daily_orders
          /\ (Acquires /\ ~Creates) =>
             /\ wrappers'[returned'[Len(returned')]].connection
                   = wrappers[returned'[Len(returned')]].connection
             /\ UNCHANGED <<schema, raw_amazon_sales,
                            monthly_revenue, daily_orders>>]_vars

\* a handle was created on a store that held rows in the three tables,
\* and a later call has reused it
C21_Witness ==
    /\ Len(wrappers) = 1
    /\ Len(returned) >= 2
    /\ schema = Tables
    /\ raw_amazon_sales # <<>>
    /\ monthly_revenue # EmptyBag
    /\ daily_orders # EmptyBag


\* ---------------------------------------------------------------------
\* C29  The singleton is never reset: once it is set it keeps its value,
\* and after it has been closed every call of duckdb_resource returns that
\* closed handle and opens no connection, so that an execute or register
\* through a handle acquired after the close raises the closed-connection
\* error without reaching the connection.

ClosedSingleton ==
    /\ _singleton_connection # Null
    /\ wrappers[Val(_singleton_connection)]._closed

C29_SingletonNeverReset ==
    [][/\ _singleton_connection # Null =>
             _singleton_connection' = _singleton_connection
       /\ (ClosedSingleton /\ Acquires) =>
             /\ returned'[Len(returned')] = Val(_singleton_connection)
             /\ ~Creates
             /\ wrappers'[Val(_singleton_connection)]._closed
             /\ wrappers'[Val(_singleton_connection)].connection
                   = wrappers[Val(_singleton_connection)].connection
       /\ \A h \in DOMAIN wrappers :
             (/\ wrappers[h].returned_closed >= 1
              /\ Called("execute", h) \/ Called("register", h)) =>
                /\ call'.raised
                /\ wrappers'[h].connection = wrappers[h].connection]_vars

\* the handle was returned again after its close, and the execute made
\* through it after that raised
C29_Witness ==
    \E h \in DOMAIN wrappers :
        /\ wrappers[h].returned_closed >= 1
        /\ returned[Len(returned)] = h
        /\ Len(wrappers) = 1
        /\ call = [method |-> "execute", handle |-> h, raised |-> TRUE]


----------------------------------------------------------------------------
(* Properties of the aggregators under interleaving, arguments and failures *)

\* What create_monthly_revenue_table leaves and returns when it runs alone
MonthlyAlone == SetToBag(MonthlyRevenueQuery(raw_amazon_sales))

\* What create_daily_orders_table leaves and returns when it runs alone
DailyAlone == SetToBag(DailyOrdersQuery(raw_amazon_sales))

\* C22: for a fixed raw table, however the statements of the two aggregators
\* interleave on the shared handle, each aggregator that has inserted holds
\* in its table, and returns, what it holds and returns when it runs alone;
\* the monthly aggregator fails exactly when it fails alone.
C22_InterleavingsAgree ==
    /\ mpc \in {"count", "done"} => monthly_revenue = MonthlyAlone
    /\ mpc = "done" => revenue_records = BagCardinality(MonthlyAlone)
    /\ mpc = "failed" <=> (m_raw_count = Len(raw_amazon_sales)
                           /\ mpc # "idle" /\ ~Busy(mpc)
                           /\ QualityCheckRaises(raw_amazon_sales))
    /\ dpc \in {"count", "done"} => daily_orders = DailyAlone
    /\ dpc = "done" => order_records = BagCardinality(DailyAlone)
    /\ dpc # "failed"

\* both aggregators are in flight in their second run, after the two
\* inserts, the first runs having returned
C22_Witness ==
    /\ mpc = "count" /\ dpc = "count"
    /\ mprev.ok /\ dprev.ok
    /\ revenue_records = BagCardinality(MonthlyAlone)
    /\ order_records = BagCardinality(DailyAlone)
    /\ monthly_revenue # EmptyBag
    /\ BagToSet(daily_orders) # BagToSet(monthly_revenue)
    /\ BagCardinality(daily_orders) = 2

\* ---------------------------------------------------------------------
\* C23  The argument records_inserted is only a trigger: whatever integer
\* an aggregator is invoked with (the other aggregator's count included),
\* a run that completes leaves in its table and returns what the raw table
\* alone determines, so two runs that differ in the integer agree.
C23_ArgumentIsOnlyTrigger ==
    /\ mpc = "done" =>
          /\ monthly_revenue = MonthlyAlone
          /\ revenue_records = BagCardinality(MonthlyAlone)
          /\ mprev.ok => /\ monthly_revenue = mprev.table
                         /\ revenue_records = mprev.ret
    /\ dpc = "done" =>
          /\ daily_orders = DailyAlone
          /\ order_records = BagCardinality(DailyAlone)
          /\ dprev.ok => /\ daily_orders = dprev.table
                         /\ order_records = dprev.ret

\* two completed runs of each aggregator with different integers, none
\* the raw row count; the monthly one got the daily count
C23_Witness ==
    /\ mpc = "done" /\ mprev.ok
    /\ mprev.records_inserted # mprev.before
    /\ mprev.records_inserted = order_records
    /\ mprev.records_inserted # Len(raw_amazon_sales)
    /\ mprev.before # Len(raw_amazon_sales)
    /\ monthly_revenue # EmptyBag
    /\ dpc = "done" /\ dprev.ok
    /\ dprev.records_inserted # dprev.before
    /\ dprev.records_inserted < Len(raw_amazon_sales)
    /\ daily_orders # EmptyBag

\* ---------------------------------------------------------------------
\* C24  No step of an aggregator changes the raw table, and none changes
\* the table of the other aggregator, whether the run completes or fails.
MonthlyStep == mpc' # mpc

DailyStep == dpc' # dpc

C24_AggregatorsFrame ==
    [][/\ MonthlyStep => UNCHANGED <<raw_amazon_sales, daily_orders>>
       /\ DailyStep => UNCHANGED <<raw_amazon_sales, monthly_revenue>>]_vars

\* a daily run has completed and a monthly run has failed at its INSERT
\* while the other table held rows
C24_Witness ==
    /\ dpc = "done" /\ daily_orders # EmptyBag
    /\ dprev.table # EmptyBag
    /\ mprev.table # EmptyBag
    /\ mpc = "failed" /\ monthly_revenue = EmptyBag
    /\ raw_amazon_sales # <<>>

\* ---------------------------------------------------------------------
\* C25  The DELETE of the destination table precedes the INSERT: while the
\* INSERT is pending the table is empty, and when the INSERT fails the
\* aggregator fails and leaves the table empty.
C25_FailedInsertLeavesEmpty ==
    /\ [](/\ mpc = "insert" => monthly_revenue = EmptyBag
          /\ dpc = "insert" => daily_orders = EmptyBag)
    /\ [][/\ (mpc = "insert" /\ mpc' = "failed") =>
                monthly_revenue' = EmptyBag
          /\ (dpc = "insert" /\ dpc' = "failed") =>
                daily_orders' = EmptyBag]_vars

\* both aggregators have failed at the INSERT of a run that found rows of a
\* previous rebuild and had groups to insert
C25_Witness ==
    /\ mpc = "failed" /\ ~QualityCheckRaises(raw_amazon_sales)
    /\ m_raw_count = Len(raw_amazon_sales)
    /\ mprev.table # EmptyBag
    /\ MonthlyAlone # EmptyBag
    /\ monthly_revenue = EmptyBag
    /\ dpc = "failed"
    /\ dprev.table # EmptyBag
    /\ DailyAlone # EmptyBag
    /\ daily_orders = EmptyBag

\* ---------------------------------------------------------------------
\* C26  A call of insert_raw_data_to_duckdb appends the whole batch or, if
\* the INSERT fails, nothing; the rows the raw table held stay as they
\* were in both cases.
Batch == InsertedRows(AddIndex(Rename(Val(cleaned_file))))

C26_BatchAllOrNothing ==
    [][stage = "cleaned" =>
          \/ /\ stage' = "inserted"
             /\ raw_amazon_sales' = raw_amazon_sales \o Batch
          \/ /\ stage' = "insert_failed"
             /\ raw_amazon_sales' = raw_amazon_sales
          \/ UNCHANGED <<stage, raw_amazon_sales>>]_vars

\* the INSERT of a batch of two rows failed on a raw table that held rows
C26_Witness ==
    /\ stage = "insert_failed"
    /\ cleaned_file # Null
    /\ Len(Val(cleaned_file).rows) = 2
    /\ raw_amazon_sales # <<>>
    /\ records_inserted = Len(raw_amazon_sales)

\* ---------------------------------------------------------------------
\* C30  The diagnostic query of create_monthly_revenue_table runs before
\* the DELETE: at that step the table is as the call found it; when no raw
\* row with a date has an amount the op fails there, and the table stays
\* as it was before the call.
NoDatedAmount ==
    \A i \in DOMAIN raw_amazon_sales :
        raw_amazon_sales[i].date_col = Null \/ raw_amazon_sales[i].amount = Null

----------------------------------------------------------------------------
(* Properties of the loader's column list *)

\* The destination column d is present in the cleaned file: under its own
\* name, or under a source name that column_mapping renames to d
PresentAs(d) ==
    {c \in Val(cleaned_file).columns :
        \/ c = d /\ c \notin DOMAIN column_mapping
        \/ c \in DOMAIN column_mapping /\ column_mapping[c] = d}

InColumnList(d) == PresentAs(d) # {} \/ d = "index_id"

\* The stored value of the destination column d for row i of the file
StoredCell(d, i) ==
    IF PresentAs(d) # {}
    THEN LET cell == Val(cleaned_file).rows[i][CHOOSE c \in PresentAs(d) : TRUE]
         IN IF d = "amount" /\ cell # Null
            THEN Some((Val(cell) + 5) \div 10) ELSE cell
    ELSE IF d = "index_id" THEN Some(i - 1)
    ELSE Null

----------------------------------------------------------------------------
(* The two summary tables against each other *)

RECURSIVE SumOver(_, _)
\* The sum of the column col over a set of summary rows
SumOver(rows, col) ==
    IF rows = {} THEN 0
    ELSE LET r == CHOOSE x \in rows : TRUE
         IN r[col] + SumOver(rows \ {r}, col)

\* Every raw row has date, category and status, and every row that is not
\* cancelled has a positive amount
CompleteRawTable ==
    \A i \in DOMAIN raw_amazon_sales :
        LET r == raw_amazon_sales[i] IN
        /\ r.date_col # Null /\ r.category # Null /\ r.status # Null
        /\ ~Cancelled(r) => (r.amount # Null /\ Val(r.amount) > 0)

BothRebuilt ==
    /\ mpc = "done" /\ m_raw_count = Len(raw_amazon_sales)
    /\ dpc = "done" /\ d_raw_count = Len(raw_amazon_sales)

\* C28: on such a raw table, after both aggregators have run, the sum of
\* total_revenue over monthly_revenue equals the sum of total_amount over
\* the daily_orders rows whose status is not "Cancelled".
C28_RevenueTotalsAgree ==
    (CompleteRawTable /\ BothRebuilt) =>
        SumOver(BagToSet(monthly_revenue), "total_revenue")
           = SumOver({o \in BagToSet(daily_orders) : o.status # "Cancelled"},
                     "total_amount")

\* three rows: a cancelled one with a positive amount and two others of
\* different days, all in the totals of daily_orders
C28_Witness ==
    /\ CompleteRawTable /\ BothRebuilt
    /\ Len(raw_amazon_sales) = 3
    /\ \E i \in DOMAIN raw_amazon_sales :
          /\ Cancelled(raw_amazon_sales[i])
          /\ raw_amazon_sales[i].amount # Null
          /\ Val(raw_amazon_sales[i].amount) > 0
    /\ BagCardinality(daily_orders) = 3
    /\ SumOver(BagToSet(monthly_revenue), "total_revenue") > 0
    /\ SumOver(BagToSet(daily_orders), "total_amount")
          > SumOver(BagToSet(monthly_revenue), "total_revenue")

=============================================================================
